---------------------------- MODULE Spec2Model ----------------------------
(***************************************************************************)
(* A model of SimTimeStep (src/webgl-physics-shader.js, lines 222-280),    *)
(* the mass-spring integrator of the viewer.                               *)
(*                                                                         *)
(* Numbers.  A JavaScript number is modelled by a fixed-point integer: the *)
(* integer n stands for n / One, and One is chosen so that the step limit  *)
(* 0.05 of line 224 is the integer MaxDt.  Every multiplication and        *)
(* division rounds to the nearest representable value, symmetrically in    *)
(* the sign, as IEEE arithmetic does.  The one non-finite value the step   *)
(* can produce from finite inputs with particleMass > 0 is NaN (0/0 in the *)
(* normalisation of a zero displacement); it is modelled by the value NaN, *)
(* which every arithmetic operation propagates and every comparison        *)
(* rejects.  Overflow to Infinity and underflow are not modelled.          *)
(***************************************************************************)
EXTENDS Integers, Sequences, FiniteSets

VARIABLES positions, velocities, springs, stiffness, damping, particleMass,
          gravity, restitution, steps, call, bounces

vars == <<positions, velocities, springs, stiffness, damping, particleMass,
          gravity, restitution, steps, call, bounces>>

-----------------------------------------------------------------------------
(* Bounds of the exploration. *)

\* Number of SimTimeStep calls explored from one initial scene.
MaxSteps == 3

\* Number of SimTimeStep calls explored in the falling-particle scenes.
FloorMaxSteps == 12

-----------------------------------------------------------------------------
(* Numbers *)

\* The step limit 0.05 of lines 224 and 226, in fixed-point units.
MaxDt == 50

\* The number 1.0: 0.05 is one twentieth of it.
One == 20 * MaxDt

\* The result of 0/0.
NaN == 0 - 1000000000

IsNaN(a) == a = NaN

Abs(a) == IF a < 0 THEN 0 - a ELSE a

\* a / b for b > 0, rounded to the nearest integer, halves away from zero.
RoundDiv(a, b) ==
    IF a >= 0 THEN (2 * a + b) \div (2 * b)
              ELSE 0 - ((2 * (0 - a) + b) \div (2 * b))

FAdd(a, b) == IF IsNaN(a) \/ IsNaN(b) THEN NaN ELSE a + b

FSub(a, b) == IF IsNaN(a) \/ IsNaN(b) THEN NaN ELSE a - b

FNeg(a) == IF IsNaN(a) THEN NaN ELSE 0 - a

FMul(a, b) == IF IsNaN(a) \/ IsNaN(b) THEN NaN ELSE RoundDiv(a * b, One)

\* a / b.  0/0 is NaN; a nonzero number over zero (Infinity) does not occur
\* for particleMass > 0 and is left without a value.
FDiv(a, b) ==
    CASE IsNaN(a) \/ IsNaN(b) -> NaN
      [] b > 0 -> RoundDiv(a * One, b)
      [] b < 0 -> 0 - RoundDiv(a * One, 0 - b)
      [] b = 0 /\ a = 0 -> NaN

\* a < b and a > b of JavaScript: false as soon as an operand is NaN.
Lt(a, b) == ~IsNaN(a) /\ ~IsNaN(b) /\ a < b

Gt(a, b) == ~IsNaN(a) /\ ~IsNaN(b) /\ a > b

RECURSIVE FloorSqrt(_, _, _)
\* The largest r in lo..hi with r * r <= n, given lo * lo <= n < (hi+1)^2.
FloorSqrt(n, lo, hi) ==
    IF lo >= hi THEN lo
    ELSE LET m == (lo + hi + 1) \div 2
         IN  IF m * m <= n THEN FloorSqrt(n, m, hi) ELSE FloorSqrt(n, lo, m - 1)

\* Math.sqrt of the sum of squares s (in units of 1/One^2), rounded to nearest.
FSqrt(s) ==
    LET r == FloorSqrt(s, 0, 40 * One)
    IN  IF s - r * r > r THEN r + 1 ELSE r

-----------------------------------------------------------------------------
(* Vec3 *)

Vec(a, b, c) == [x |-> a, y |-> b, z |-> c]

Zero3 == Vec(0, 0, 0)

NaN3 == Vec(NaN, NaN, NaN)

V3add(u, v) == Vec(FAdd(u.x, v.x), FAdd(u.y, v.y), FAdd(u.z, v.z))

V3sub(u, v) == Vec(FSub(u.x, v.x), FSub(u.y, v.y), FSub(u.z, v.z))

V3mul(u, f) == Vec(FMul(u.x, f), FMul(u.y, f), FMul(u.z, f))

V3div(u, f) == Vec(FDiv(u.x, f), FDiv(u.y, f), FDiv(u.z, f))

V3len(u) ==
    IF IsNaN(u.x) \/ IsNaN(u.y) \/ IsNaN(u.z) THEN NaN
    ELSE FSqrt(u.x * u.x + u.y * u.y + u.z * u.z)

\* The vector divided by its length: NaN in every component for the zero
\* vector.
V3unit(u) == V3div(u, V3len(u))

V3HasNaN(u) == IsNaN(u.x) \/ IsNaN(u.y) \/ IsNaN(u.z)


-----------------------------------------------------------------------------
(* SimTimeStep.  positions and velocities are sequences of Vec3 (particle  *)
(* i of the code is element i + 1); a spring is [p0, p1, rest] with p0 and *)
(* p1 indices of the code (from 0).                                        *)

minBound == 0 - One

maxBound == One

\* Mutant: the step is used as given.
ClampDtMissing(dt) == dt

\* Lines 224-227: the step actually used.
ClampDt(dt) == IF dt > MaxDt THEN MaxDt ELSE dt

\* Line 225: whether console.warn is called.
Warns(dt) == dt > MaxDt

\* Line 230: one zero force per particle.
InitForces(pos) == [i \in 1..Len(pos) |-> Zero3]

\* Lines 234-240: the force vector of one spring.
SpringForce(pos, spring, k) ==
    LET p0 == pos[spring.p0 + 1]
        p1 == pos[spring.p1 + 1]
        displacement == V3sub(p1, p0)
        currentLength == V3len(displacement)
        direction == V3unit(displacement)
        forceMagnitude == FMul(k, FSub(currentLength, spring.rest))
    IN  V3mul(direction, forceMagnitude)

\* Mutant: inc and dec exchanged, so that a stretched spring pushes.
ApplySpringSwapped(forces, pos, spring, k) ==
    LET f == SpringForce(pos, spring, k)
        a == [forces EXCEPT ![spring.p0 + 1] = V3sub(@, f)]
    IN  [a EXCEPT ![spring.p1 + 1] = V3add(@, f)]

\* Lines 243-244: forces[p0].inc(springForce); forces[p1].dec(springForce).
ApplySpring(forces, pos, spring, k) ==
    LET f == SpringForce(pos, spring, k)
        a == [forces EXCEPT ![spring.p0 + 1] = V3add(@, f)]
    IN  [a EXCEPT ![spring.p1 + 1] = V3sub(@, f)]

RECURSIVE SpringLoop(_, _, _, _, _)
\* Lines 233-245: springs.forEach, from spring n on, in the order of the array.
SpringLoop(forces, pos, sprs, k, n) ==
    IF n > Len(sprs) THEN forces
    ELSE SpringLoop(ApplySpring(forces, pos, sprs[n], k), pos, sprs, k, n + 1)

\* Lines 248-251: gravity and damping, from the velocities before the step.
GravityDamping(forces, vel, m, g, c) ==
    [i \in 1..Len(vel) |->
        V3sub(V3add(forces[i], V3mul(g, m)), V3mul(vel[i], c))]

\* Mutant: the acceleration is added without the factor dt.
IntegrateVelocityNoDt(v, force, m, dt) == V3add(v, V3div(force, m))

\* Line 256: v = v + a * dt, with a = F / m of line 255.
IntegrateVelocity(v, force, m, dt) == V3add(v, V3mul(V3div(force, m), dt))

\* Line 257: x = x + v * dt, with the velocity line 256 has just written.
IntegratePosition(p, vNew, dt) == V3add(p, V3mul(vNew, dt))

\* Mutant: explicit Euler, the position moved by the velocity before the
\* update.
IntegrateExplicit(pos, vel, forces, m, dt) ==
    [positions |-> [i \in 1..Len(pos) |-> IntegratePosition(pos[i], vel[i], dt)],
     velocities |->
        [i \in 1..Len(pos) |-> IntegrateVelocity(vel[i], forces[i], m, dt)]]

\* Lines 254-258: the integration loop; each particle reads only its own
\* entries, so the loop is a map.
Integrate(pos, vel, forces, m, dt) ==
    LET v == [i \in 1..Len(pos) |-> IntegrateVelocity(vel[i], forces[i], m, dt)]
    IN  [positions |-> [i \in 1..Len(pos) |-> IntegratePosition(pos[i], v[i], dt)],
         velocities |-> v]

\* Mutant: the velocity is reversed at a wall without the factor restitution.
CollideAxisNoRestitution(p, v, e) ==
    IF Lt(p, minBound)
    THEN [p |-> minBound, v |-> IF Lt(v, 0) THEN FNeg(v) ELSE v]
    ELSE IF Gt(p, maxBound)
         THEN [p |-> maxBound, v |-> IF Gt(v, 0) THEN FNeg(v) ELSE v]
         ELSE [p |-> p, v |-> v]

\* Mutant: the velocity is reversed on every clamped axis, without the test
\* of its sign (lines 269 and 274 left out).
CollideAxisAlwaysReflect(p, v, e) ==
    IF Lt(p, minBound)
    THEN [p |-> minBound, v |-> FMul(v, FNeg(e))]
    ELSE IF Gt(p, maxBound)
         THEN [p |-> maxBound, v |-> FMul(v, FNeg(e))]
         ELSE [p |-> p, v |-> v]

\* Lines 267-277: one axis of one particle.
CollideAxis(p, v, e) ==
    IF Lt(p, minBound)
    THEN [p |-> minBound, v |-> IF Lt(v, 0) THEN FMul(v, FNeg(e)) ELSE v]
    ELSE IF Gt(p, maxBound)
         THEN [p |-> maxBound, v |-> IF Gt(v, 0) THEN FMul(v, FNeg(e)) ELSE v]
         ELSE [p |-> p, v |-> v]

\* Mutant: a particle that has left the box is removed instead of clamped.
CollideCull(pos, vel, e) ==
    LET pairs == [i \in 1..Len(pos) |-> [p |-> pos[i], v |-> vel[i]]]
        Inside(pr) ==
            \A a \in {"x", "y", "z"} :
                ~Lt(pr.p[a], minBound) /\ ~Gt(pr.p[a], maxBound)
        kept == SelectSeq(pairs, Inside)
    IN  [positions |-> [i \in 1..Len(kept) |-> kept[i].p],
         velocities |-> [i \in 1..Len(kept) |-> kept[i].v]]

\* Lines 264-279: every particle, every axis.
Collide(pos, vel, e) ==
    [positions |->
        [i \in 1..Len(pos) |->
            [a \in {"x", "y", "z"} |-> CollideAxis(pos[i][a], vel[i][a], e).p]],
     velocities |->
        [i \in 1..Len(pos) |->
            [a \in {"x", "y", "z"} |-> CollideAxis(pos[i][a], vel[i][a], e).v]]]

\* Lines 269-270 and 274-275: how many velocity components one call reverses.
Reversals(pos, vel) ==
    Cardinality({ia \in (1..Len(pos)) \X {"x", "y", "z"} :
        \/ Lt(pos[ia[1]][ia[2]], minBound) /\ Lt(vel[ia[1]][ia[2]], 0)
        \/ Gt(pos[ia[1]][ia[2]], maxBound) /\ Gt(vel[ia[1]][ia[2]], 0)})

\* Lines 222-280: one call SimTimeStep(dt, positions, velocities, springs,
\* stiffness, damping, particleMass, gravity, restitution) by the scene.  The
\* two arrays are written in place; `call' keeps the argument dt and the
\* local values of the call, `steps' counts the calls and `bounces' the
\* velocity components reversed at a wall so far.
SimTimeStep(dt) ==
    \E used \in {ClampDt(dt)} :
    \E springForces \in {SpringLoop(InitForces(positions), positions, springs,
                                    stiffness, 1)} :
    \E forces \in {GravityDamping(springForces, velocities, particleMass,
                                  gravity, damping)} :
    \E integrated \in {Integrate(positions, velocities, forces, particleMass,
                                 used)} :
    \E collided \in {Collide(integrated.positions, integrated.velocities,
                              restitution)} :
        /\ positions' = collided.positions
        /\ velocities' = collided.velocities
        /\ call' = [dt |-> dt, usedDt |-> used, warned |-> Warns(dt),
                    prePositions |-> positions,
                    preVelocities |-> velocities,
                    springForces |-> springForces,
                    forces |-> forces,
                    intPositions |-> integrated.positions,
                    intVelocities |-> integrated.velocities]
        /\ steps' = steps + 1
        /\ bounces' = bounces + Reversals(integrated.positions,
                                          integrated.velocities)
        /\ UNCHANGED <<springs, stiffness, damping, particleMass, gravity,
                       restitution>>

-----------------------------------------------------------------------------
(* The scenes SimTimeStep is called on.  The caller owns the buffers and   *)
(* the parameters; a scene is any finite state with particleMass > 0 and   *)
(* spring indices within the particle count.                               *)

Spring(a, b, r) == [p0 |-> a, p1 |-> b, rest |-> r]

\* The gravity of the tested scene, (0, -10, 0).
Down == Vec(0, 0 - 10 * One, 0)

\* No call has been made yet: the locals hold the scene as it stands.
NoCall(pos, vel) ==
    [dt |-> 0, usedDt |-> 0, warned |-> FALSE,
     prePositions |-> pos, preVelocities |-> vel,
     springForces |-> InitForces(pos), forces |-> InitForces(pos),
     intPositions |-> pos, intVelocities |-> vel]

Scene(pos, vel, sprs, k, c, m, g, e) ==
    /\ positions = pos
    /\ velocities = vel
    /\ springs = sprs
    /\ stiffness = k
    /\ damping = c
    /\ particleMass = m
    /\ gravity = g
    /\ restitution = e
    /\ steps = 0
    /\ call = NoCall(pos, vel)
    /\ bounces = 0

\* One particle: inside the box, near a corner, outside the box, on the walls.
SinglePositions ==
    { Zero3, Vec(900, 0 - 950, 0), Vec(1500, 0, 0 - 2000),
      Vec(0 - One, One, One) }

SingleVelocities ==
    { Zero3, Vec(3000, 0 - 4000, 2000), Vec(0 - 2000, 500, 0 - 6000) }

\* Two particles joined by one spring: at distance 0.5 (along an axis and
\* across), at distance 1 (across), coincident, both beyond the same corner,
\* far apart.
PairPositions ==
    { <<Zero3, Vec(500, 0, 0)>>,
      <<Vec(0 - 300, 0, 0), Vec(0, 400, 0)>>,
      <<Vec(0 - 300, 0, 0), Vec(300, 800, 0)>>,
      <<Vec(200, 200, 200), Vec(200, 200, 200)>>,
      <<Vec(2000, 2000, 2000), Vec(3000, 1500, 1200)>>,
      <<Vec(900, 0, 0), Vec(0 - 900, 0, 0)>> }

PairVelocities ==
    { <<Zero3, Zero3>>, <<Vec(One, 0, 0), Vec(0, 0 - 2000, 0)>> }

InitSingle ==
    \E p \in SinglePositions, v \in SingleVelocities,
       g \in {Zero3, Down}, c \in {0, 500}, m \in {One, 2 * One},
       e \in {0, 500, One} :
        Scene(<<p>>, <<v>>, <<>>, One, c, m, g, e)

InitPair ==
    \E p \in PairPositions, v \in PairVelocities, r \in {0, 500, One},
       k \in {One, 4 * One}, g \in {Zero3, Down}, c \in {0, 500} :
        Scene(p, v, <<Spring(0, 1, r)>>, k, c, One, g, One)

\* Three particles in a chain of two springs, and a spring from a particle
\* to itself.
InitChain ==
    \E sprs \in { <<Spring(0, 1, 500), Spring(1, 2, 500)>>,
                  <<Spring(2, 1, 300), Spring(0, 1, 700)>>,
                  <<Spring(0, 1, 500), Spring(2, 2, 0)>> },
       g \in {Zero3, Down}, e \in {500, One} :
        Scene(<<Zero3, Vec(600, 0, 0), Vec(600, 0 - 800, 0)>>,
              <<Zero3, Zero3, Vec(0, 0, One)>>, sprs, 2 * One, 0, One, g, e)

Init == InitSingle \/ InitPair \/ InitChain

\* The steps the scene asks for: none, 0.02, the limit 0.05, and 1.0.
Dts == {0, 20, MaxDt, One}

Next == \E dt \in Dts : steps < MaxSteps /\ SimTimeStep(dt)

Spec == Init /\ [][Next]_vars

\* The falling particle: one particle at rest at the origin, gravity of 10
\* along one axis, in either direction, no springs, no damping.
Pulls ==
    { Down, Vec(0, 10 * One, 0), Vec(10 * One, 0, 0), Vec(0 - 10 * One, 0, 0),
      Vec(0, 0, 10 * One), Vec(0, 0, 0 - 10 * One) }

InitFloor ==
    \E g \in Pulls, e \in {0, 500, One} :
        Scene(<<Zero3>>, <<Zero3>>, <<>>, One, 0, One, g, e)

\* The scene advances time at every tick: 0.04, the limit 0.05, or 1.0.
FloorDts == {40, MaxDt, One}

NextFloor == \E dt \in FloorDts : steps < FloorMaxSteps /\ SimTimeStep(dt)

SpecFloor == InitFloor /\ [][NextFloor]_vars

-----------------------------------------------------------------------------
(* Vocabulary of the properties. *)

Coords == {"x", "y", "z"}

Called == steps > 0

Particles == 1..Len(positions)

Defined(a) == ~IsNaN(a)

InRange(a) == Defined(a) /\ minBound <= a /\ a <= maxBound

AllInBox(pos) == \A i \in 1..Len(pos) : \A a \in Coords : InRange(pos[i][a])

AllDefined(pos) == \A i \in 1..Len(pos) : \A a \in Coords : Defined(pos[i][a])

\* u . v of two finite vectors, in units of 1/One^2.
Dot(u, v) == u.x * v.x + u.y * v.y + u.z * v.z

\* The wall response to an integrated coordinate p with velocity v, written
\* out: the coordinate and the velocity the step must end with.
WallPosition(p) ==
    IF Defined(p) /\ p < minBound THEN minBound
    ELSE IF Defined(p) /\ p > maxBound THEN maxBound ELSE p

WallVelocity(p, v, e) ==
    IF Defined(p) /\ Defined(v) /\ ((p < minBound /\ v < 0) \/ (p > maxBound /\ v > 0))
    THEN RoundDiv((0 - e) * v, One)
    ELSE v

-----------------------------------------------------------------------------
(* C1 *)

\* C1: box containment: after every call of SimTimeStep, every coordinate of
\* every particle lies in [-1, 1], whatever the scene and the starting
\* positions.
C1_BoxContainment == Called => AllInBox(positions)

-----------------------------------------------------------------------------
(* C7 *)

\* C7: a zero-length spring is given a defined force: after every call of
\* SimTimeStep every position and every velocity is a defined number (no NaN
\* reaches the state).
C7_DefinedAfterStep == Called => AllDefined(positions) /\ AllDefined(velocities)

-----------------------------------------------------------------------------
(* C4 *)

\* The scene of C4 before a call: two particles inside the box, at rest, one
\* spring between them whose rest length is their distance, no gravity, no
\* damping, restitution 1.
AtEquilibrium(pos, vel) ==
    /\ Len(pos) = 2
    /\ Len(springs) = 1
    /\ {springs[1].p0, springs[1].p1} = {0, 1}
    /\ gravity = Zero3
    /\ damping = 0
    /\ restitution = One
    /\ vel = <<Zero3, Zero3>>
    /\ AllInBox(pos)
    /\ V3len(V3sub(pos[2], pos[1])) = springs[1].rest

\* C4: equilibrium: two particles at rest at distance exactly r, joined by one
\* spring of rest length r, with no gravity, no damping and restitution 1,
\* have the same positions and zero velocities after a call of SimTimeStep
\* (and so after any number of calls).
C4_Equilibrium ==
    Called /\ AtEquilibrium(call.prePositions, call.preVelocities)
        => positions = call.prePositions /\ velocities = call.preVelocities

-----------------------------------------------------------------------------
(* C2 *)

\* C2 as stated: a call with dt = 0 leaves every position and every velocity
\* unchanged, for every input state.
C2_ZeroStepIdentity ==
    Called /\ call.dt = 0
        => positions = call.prePositions /\ velocities = call.preVelocities

\* Particle i is an end of a spring whose ends coincide, or whose other end is
\* already NaN, in the positions pos.
OnZeroLengthSpring(pos, i) ==
    \E n \in 1..Len(springs) :
        /\ i \in {springs[n].p0 + 1, springs[n].p1 + 1}
        /\ LET L == V3len(V3sub(pos[springs[n].p1 + 1], pos[springs[n].p0 + 1]))
           IN  L = 0 \/ IsNaN(L)

\* C2, amended: a call with dt = 0 leaves unchanged the position and the
\* velocity of every particle on every axis where its position lies in
\* [-1, 1]; on an axis where the position is outside [-1, 1] the position is
\* set to the nearer bound and the velocity, when it points outward, is
\* multiplied by -restitution; and a particle at an end of a zero-length
\* spring gets NaN in every position and velocity component.
C2_ZeroStepAmended ==
    Called /\ call.dt = 0 =>
        \A i \in Particles : \A a \in Coords :
            LET p == call.prePositions[i][a]
                v == call.preVelocities[i][a]
            IN  IF OnZeroLengthSpring(call.prePositions, i)
                THEN IsNaN(positions[i][a]) /\ IsNaN(velocities[i][a])
                ELSE IF InRange(p) \/ IsNaN(p)
                THEN positions[i][a] = p /\ velocities[i][a] = v
                ELSE /\ positions[i][a] = (IF p < minBound THEN minBound ELSE maxBound)
                     /\ velocities[i][a] = WallVelocity(p, v, restitution)

\* A zero step was taken under gravity on a moving particle that lies inside
\* the box on one axis and outside it on another, where it was clamped.
C2_Witness ==
    /\ Called /\ call.dt = 0 /\ gravity # Zero3
    /\ \E i \in Particles : \E a, b \in Coords :
          /\ InRange(call.prePositions[i][a])
          /\ call.preVelocities[i][a] # 0
          /\ Defined(call.prePositions[i][b])
          /\ ~InRange(call.prePositions[i][b])
          /\ positions[i][b] # call.prePositions[i][b]

-----------------------------------------------------------------------------
(* C3 *)

\* C3: a call with dt > 0.05 ends with exactly the positions and velocities
\* that the same forces integrated over 0.05 give; the warning is emitted
\* exactly when dt > 0.05; and a dt <= 0.05 is the step used.
C3_DtClamp ==
    Called =>
        /\ call.warned <=> call.dt > MaxDt
        /\ call.dt <= MaxDt => call.usedDt = call.dt
        /\ call.dt > MaxDt =>
              \A i \in Particles : \A a \in Coords :
                  LET acc == FDiv(call.forces[i][a], particleMass)
                      v == FAdd(call.preVelocities[i][a], FMul(acc, MaxDt))
                      p == FAdd(call.prePositions[i][a], FMul(v, MaxDt))
                  IN  /\ positions[i][a] = WallPosition(p)
                      /\ velocities[i][a] = WallVelocity(p, v, restitution)

\* A call with dt = 1.0 moved a particle.
C3_Witness ==
    /\ Called /\ call.dt = One /\ call.warned
    /\ AllDefined(positions)
    /\ positions # call.prePositions
    /\ velocities # call.preVelocities

-----------------------------------------------------------------------------
(* C5 *)

\* The integration of the last call left particle i beyond a wall on axis a,
\* still moving outward.
HitsWall(i, a) ==
    LET p == call.intPositions[i][a]
        v == call.intVelocities[i][a]
    IN  Defined(p) /\ Defined(v)
        /\ ((p < minBound /\ v < 0) \/ (p > maxBound /\ v > 0))

C5_Response ==
    Called =>
        \A i \in Particles : \A a \in Coords :
            HitsWall(i, a) =>
                /\ positions[i][a] =
                      (IF call.intPositions[i][a] < 0 THEN minBound ELSE maxBound)
                /\ velocities[i][a] =
                      RoundDiv((0 - restitution) * call.intVelocities[i][a], One)

\* C5: a particle falling from rest at the origin under a gravity of 10, with
\* steps of 0.04 or more, has had an integrated position beyond the wall by
\* the last call explored, and not before the ninth call (nine steps of 0.05
\* fall by 1.125); and on every step where an integrated coordinate
\* is beyond a wall with the integrated velocity v pointing outward, the step
\* ends with the coordinate on the wall and the velocity -restitution * v.
C5_FloorCollision ==
    /\ C5_Response
    /\ steps >= FloorMaxSteps => bounces > 0
    /\ bounces > 0 => steps >= 9

\* The scene of the claim: gravity (0, -10, 0) and restitution 0.5; the
\* integration went below the floor and the call ended on the floor, moving
\* up at half the speed.
C5_Witness ==
    /\ Called /\ gravity = Down /\ restitution = 500
    /\ call.intPositions[1].y < minBound
    /\ call.intVelocities[1].y < 0
    /\ positions[1].y = minBound
    /\ 2 * velocities[1].y = 0 - call.intVelocities[1].y

-----------------------------------------------------------------------------
(* C6 *)

\* The last call ran on two particles joined by one spring of nonzero
\* current length.
OneSpringCall ==
    /\ Called
    /\ Len(springs) = 1
    /\ springs[1].p0 # springs[1].p1
    /\ AllDefined(call.prePositions)
    /\ call.prePositions[springs[1].p0 + 1] # call.prePositions[springs[1].p1 + 1]

\* The vector from p0 to p1 before the call, and its length.
SpringVector ==
    LET a == call.prePositions[springs[1].p0 + 1]
        b == call.prePositions[springs[1].p1 + 1]
    IN  Vec(b.x - a.x, b.y - a.y, b.z - a.z)

SpringLength == FSqrt(Dot(SpringVector, SpringVector))

\* C6: the force a spring adds to p0 is stiffness * (L - rest) times the unit
\* vector from p0 to p1, and the force it adds to p1 is the exact negation:
\* toward p1 when stretched, away from it when compressed; two particles at
\* rest at distance 2 * rest, with stiffness 1 and no other force, get a force
\* of magnitude stiffness * rest and velocities pointing toward each other.
C6_SpringForce ==
    OneSpringCall =>
        LET d == SpringVector
            L == SpringLength
            f == RoundDiv(stiffness * (L - springs[1].rest), One)
            F0 == call.springForces[springs[1].p0 + 1]
            F1 == call.springForces[springs[1].p1 + 1]
        IN  /\ \A a \in Coords :
                  /\ F0[a] = RoundDiv(RoundDiv(d[a] * One, L) * f, One)
                  /\ F1[a] = 0 - F0[a]
            /\ L > springs[1].rest => Dot(F0, d) > 0 /\ Dot(F1, d) < 0
            /\ L < springs[1].rest => Dot(F0, d) < 0 /\ Dot(F1, d) > 0
            /\ ( /\ L = 2 * springs[1].rest
                 /\ stiffness = One /\ gravity = Zero3 /\ damping = 0
                 /\ call.preVelocities = <<Zero3, Zero3>>
                 /\ call.usedDt > 0 )
               => /\ Abs(FSqrt(Dot(F0, F0)) - springs[1].rest) <= 1
                  /\ Dot(call.intVelocities[springs[1].p0 + 1], d) > 0
                  /\ Dot(call.intVelocities[springs[1].p1 + 1], d) < 0

\* A stretched spring at twice its rest length, across two axes, pulled two
\* particles at rest toward each other.
C6_Witness ==
    /\ OneSpringCall
    /\ SpringLength = 2 * springs[1].rest
    /\ SpringVector.x # 0 /\ SpringVector.y # 0
    /\ stiffness = One /\ gravity = Zero3 /\ damping = 0
    /\ call.preVelocities = <<Zero3, Zero3>>
    /\ call.usedDt > 0
    /\ Dot(velocities[1], SpringVector) > 0
    /\ Dot(velocities[2], SpringVector) < 0

-----------------------------------------------------------------------------
(* C8 *)

\* C8: a call of SimTimeStep never adds or removes a particle (positions and
\* velocities keep their lengths, equal to each other) and leaves the springs,
\* stiffness, damping, particleMass, gravity and restitution unchanged.
C8_Frame ==
    [][ /\ Len(positions') = Len(positions)
        /\ Len(velocities') = Len(velocities)
        /\ Len(positions') = Len(velocities')
        /\ springs' = springs
        /\ stiffness' = stiffness
        /\ damping' = damping
        /\ particleMass' = particleMass
        /\ gravity' = gravity
        /\ restitution' = restitution ]_vars

\* A call on three particles and two springs changed positions and
\* velocities.
C8_Witness ==
    /\ Called /\ Len(positions) = 3 /\ Len(velocities) = 3 /\ Len(springs) = 2
    /\ positions # call.prePositions
    /\ velocities # call.preVelocities

-----------------------------------------------------------------------------
(* C9 *)

\* The sum of the forces of the springs on particle i, axis a, from the
\* positions pos, for at most one spring between two different particles.
OneSpringForce(pos, i, a) ==
    IF Len(springs) = 0 THEN 0
    ELSE LET s == springs[1]
             d == FSub(pos[s.p1 + 1][a], pos[s.p0 + 1][a])
             L == V3len(V3sub(pos[s.p1 + 1], pos[s.p0 + 1]))
             F == FMul(FDiv(d, L), FMul(stiffness, FSub(L, s.rest)))
         IN  IF i = s.p0 + 1 THEN F ELSE IF i = s.p1 + 1 THEN FNeg(F) ELSE 0

\* C9: semi-implicit Euler: the forces of a call are those of the positions
\* and velocities before the call, for every particle; then
\* v_new = v_old + (force / particleMass) * dt and p_new = p_old + v_new * dt,
\* with the velocity just updated; and the wall response is applied to the
\* integrated values of all particles.
C9_SemiImplicitEuler ==
    Called =>
        \A i \in Particles : \A a \in Coords :
            LET F == call.forces[i][a]
                vOld == call.preVelocities[i][a]
                pOld == call.prePositions[i][a]
                vNew == call.intVelocities[i][a]
                pNew == call.intPositions[i][a]
            IN  /\ F = FSub(FAdd(call.springForces[i][a],
                                 FMul(gravity[a], particleMass)),
                            FMul(vOld, damping))
                /\ (Len(springs) <= 1 /\ (Len(springs) = 1 => springs[1].p0 # springs[1].p1))
                      => call.springForces[i][a] = OneSpringForce(call.prePositions, i, a)
                /\ vNew = FAdd(vOld, FMul(FDiv(F, particleMass), call.usedDt))
                /\ pNew = FAdd(pOld, FMul(vNew, call.usedDt))
                /\ positions[i][a] = WallPosition(pNew)
                /\ velocities[i][a] = WallVelocity(pNew, vNew, restitution)

\* A call with a positive step on two particles joined by a stretched spring:
\* both were accelerated, and moved by the new velocity, not the old one.
C9_Witness ==
    /\ OneSpringCall /\ call.usedDt > 0
    /\ AllDefined(call.intPositions)
    /\ \A i \in Particles :
          /\ call.springForces[i] # Zero3
          /\ call.intVelocities[i] # call.preVelocities[i]
          /\ call.intPositions[i] #
                V3add(call.prePositions[i], V3mul(call.preVelocities[i], call.usedDt))

-----------------------------------------------------------------------------
(* C10 *)

\* C10: for restitution >= 0, on every axis where a call clamped the position
\* to -1 the velocity after the call is >= 0, and where it clamped to +1 the
\* velocity is <= 0; an integrated velocity that already pointed into the box
\* on a clamped axis is left unchanged; and an axis whose integrated position
\* is within [-1, 1] has neither its position nor its velocity changed by the
\* collision handling, whatever happens on the other two axes.
C10_CollisionResponse ==
    Called /\ restitution >= 0 =>
        \A i \in Particles : \A a \in Coords :
            LET p == call.intPositions[i][a]
                v == call.intVelocities[i][a]
            IN  /\ (Defined(p) /\ p < minBound) =>
                      /\ positions[i][a] = minBound
                      /\ Defined(velocities[i][a]) /\ velocities[i][a] >= 0
                      /\ (Defined(v) /\ v >= 0) => velocities[i][a] = v
                /\ (Defined(p) /\ p > maxBound) =>
                      /\ positions[i][a] = maxBound
                      /\ Defined(velocities[i][a]) /\ velocities[i][a] <= 0
                      /\ (Defined(v) /\ v <= 0) => velocities[i][a] = v
                /\ InRange(p) =>
                      /\ positions[i][a] = p
                      /\ velocities[i][a] = v

\* One call clamped a particle on one axis while it moved inward there,
\* reflected it on another axis, and left its third axis alone.
C10_Witness ==
    /\ Called /\ restitution > 0
    /\ \E i \in Particles : \E a, b, c \in Coords :
          /\ call.intPositions[i][a] > maxBound
          /\ call.intVelocities[i][a] < 0
          /\ velocities[i][a] = call.intVelocities[i][a]
          /\ HitsWall(i, b)
          /\ velocities[i][b] # call.intVelocities[i][b]
          /\ InRange(call.intPositions[i][c])
          /\ call.intVelocities[i][c] # 0

=============================================================================
